---- MODULE Spec2Model ----
(***************************************************************************)
(* superman/file_io/opus.py: the OPUS file reader (OpusFile, iter_blocks,  *)
(* parse_traj) and writer (write_opus), modelled over a byte arena.        *)
(*                                                                         *)
(* A file is a sequence of bytes (0..255); file offset p is element p+1.   *)
(* Numbers that the program holds as floats are fixed-point integers in    *)
(* units of one half (Real(i) is the float i.0), so that a float -> int    *)
(* conversion and a float64 -> float32 conversion can lose something.      *)
(* The IEEE-754 bit pattern of a float is represented by the little-endian *)
(* two's complement bytes of its fixed-point value: a bijection between    *)
(* the representable values and their byte strings, as the real encoding   *)
(* is.  The all-zero pattern is 0.0 in both.                               *)
(***************************************************************************)
EXTENDS Integers, Sequences, FiniteSets, TLC

\* ------------------------------------------------------------- bounds
MaxPts == 3
MaxComment == 4
MaxDir == 2

\* ------------------------------------------------------ byte primitives
Byte == 0..255

\* struct.unpack('<H'), struct.unpack('<L')
ULInt16_parse(b) == b[1] + 256 * b[2]
ULInt32_parse(b) == b[1] + 256 * b[2] + 65536 * b[3] + 16777216 * b[4]

\* struct.pack('<H'), struct.pack('<L') of a value in range
ULInt16_build(v) == <<v % 256, (v \div 256) % 256>>
ULInt32_build(v) ==
    <<v % 256, (v \div 256) % 256, (v \div 65536) % 256, (v \div 16777216) % 256>>

\* struct.pack('<L', v) raises struct.error for a negative v
ULInt32_ok(v) == v >= 0

\* construct's _read_stream: a read of n bytes at pos raises FieldError when
\* fewer than n bytes are left
CanRead(f, pos, n) == pos + n <= Len(f)
Read(f, pos, n) == SubSeq(f, pos + 1, pos + n)

Zeros(n) == [i \in 1..n |-> 0]

\* A write of bytes bs at offset pos of a file opened 'wb': a gap between the
\* end of the file and pos reads back as zeros.
WriteAt(f, pos, bs) ==
    LET g == IF Len(f) < pos THEN f \o Zeros(pos - Len(f)) ELSE f
    IN  SubSeq(g, 1, pos) \o bs \o SubSeq(g, pos + Len(bs) + 1, Len(g))

\* ---------------------------------------------------------- fixed point
Real(i) == 2 * i
\* int(x) of a float: truncation toward zero
ToInt(x) == IF x >= 0 THEN x \div 2 ELSE -((-x) \div 2)

RECURSIVE Log2(_)
Log2(m) == IF m <= 1 THEN 0 ELSE 1 + Log2(m \div 2)
RECURSIVE Pow2(_)
Pow2(e) == IF e <= 0 THEN 1 ELSE 2 * Pow2(e - 1)

\* float64 -> float32: the value rounded to 24 significant bits, ties to even
Float32(x) ==
    LET m == IF x < 0 THEN -x ELSE x
        e == Log2(m)
        q == Pow2(e - 23)
        r == m % q
        down == m - r
        up == down + q
        rounded == IF 2 * r < q THEN down
                   ELSE IF 2 * r > q THEN up
                   ELSE IF (down \div q) % 2 = 0 THEN down ELSE up
    IN  IF e <= 23 THEN x ELSE IF x < 0 THEN -rounded ELSE rounded

\* The four bytes of a float32 / eight bytes of a float64 (see the header).
SignedBytes4(k) ==
    <<k % 256, (k \div 256) % 256, (k \div 65536) % 256, (k \div 16777216) % 256>>
SignedInt4(b) ==
    b[1] + 256 * b[2] + 65536 * b[3]
      + 16777216 * (IF b[4] >= 128 THEN b[4] - 256 ELSE b[4])

LFloat32_build(x) == SignedBytes4(Float32(x))
LFloat32_parse(b) == SignedInt4(b)
LFloat64_build(x) ==
    SignedBytes4(x) \o (IF x < 0 THEN <<255, 255, 255, 255>> ELSE <<0, 0, 0, 0>>)
LFloat64_parse(b) == SignedInt4(SubSeq(b, 1, 4))

\* ------------------------------------------------------------- strings
\* ASCII codes of the names the program uses
Str_END == <<69, 78, 68>>
Str_DPF == <<68, 80, 70>>
Str_NPT == <<78, 80, 84>>
Str_FXV == <<70, 88, 86>>
Str_LXV == <<76, 88, 86>>
Str_CSF == <<67, 83, 70>>
Str_MXY == <<77, 88, 89>>
Str_MNY == <<77, 78, 89>>
Str_DXU == <<68, 88, 85>>
Str_WN == <<87, 78>>

\* FixedSizeCString: a fixed-width, null-padded string.  Parsing keeps the
\* bytes before the first null; building pads with nulls to the width.
RECURSIVE CString_parse(_)
CString_parse(b) ==
    IF b = <<>> \/ Head(b) = 0 THEN <<>> ELSE <<Head(b)>> \o CString_parse(Tail(b))
CString_build(s, width) == s \o Zeros(width - Len(s))

\* ------------------------------------------------------------ BlockType
\* BitSplitter(ULInt32('BlockType'), name=(bit offset, width), ...): each
\* field is the word shifted right by its offset and masked to its width.
BitField(word, offset, width) == (word \div Pow2(offset)) % Pow2(width)

BlockType_parse(b) ==
    LET w == ULInt32_parse(b)
    IN  [complex |-> BitField(w, 0, 2), type |-> BitField(w, 2, 2),
         param |-> BitField(w, 4, 6), data |-> BitField(w, 10, 7),
         deriv |-> BitField(w, 17, 2), extend |-> BitField(w, 19, 3)]

BlockType_build(bt) ==
    ULInt32_build(bt.complex + 4 * bt.type + 16 * bt.param + 1024 * bt.data
                  + 131072 * bt.deriv + 524288 * bt.extend)

\* BlockType_decoder[key][code], a defaultdict whose default is 'unknown'
BlockType_decoder(key, code) ==
    CASE key = "complex" ->
           (CASE code = 0 -> "" [] code = 1 -> "real" [] code = 2 -> "imaginary"
              [] code = 3 -> "amplitude" [] OTHER -> "unknown")
      [] key = "type" ->
           (CASE code = 0 -> "" [] code = 1 -> "sample" [] code = 2 -> "reference"
              [] code = 3 -> "ratio" [] OTHER -> "unknown")
      [] key = "deriv" ->
           (CASE code = 0 -> "" [] code = 1 -> "first deriv"
              [] code = 2 -> "second deriv" [] code = 3 -> "nth deriv"
              [] OTHER -> "unknown")
      [] key = "extend" ->
           (CASE code = 0 -> "" [] code = 1 -> "compound info"
              [] code = 2 -> "peak table" [] code = 3 -> "molecular structure"
              [] code = 4 -> "macro" [] code = 5 -> "command log"
              [] OTHER -> "unknown")
      [] key = "data" ->
           (CASE code = 0 -> "" [] code = 1 -> "spectrum, undefined Y units"
              [] code = 2 -> "interferogram" [] code = 3 -> "phase spectrum"
              [] code = 4 -> "absorbance spectrum"
              [] code = 5 -> "transmittance spectrum"
              [] code = 6 -> "kubelka-munck spectrum" [] code = 7 -> "trace"
              [] code = 8 -> "gc file (interferograms)"
              [] code = 9 -> "gc file (spectra)" [] code = 10 -> "raman spectrum"
              [] code = 11 -> "emission spectrum"
              [] code = 12 -> "reflectance spectrum" [] code = 13 -> "directory"
              [] code = 14 -> "power spectrum"
              [] code = 15 -> "neg. log reflectance" [] code = 16 -> "ATR spectrum"
              [] code = 17 -> "photoacoustic spectrum"
              [] code = 18 -> "arithmetics (transmittance)"
              [] code = 19 -> "arithmetics (absorbance)" [] OTHER -> "unknown")
      [] OTHER ->
           (CASE code = 0 -> "" [] code = 1 -> "data status"
              [] code = 2 -> "instrument status" [] code = 3 -> "acquisition"
              [] code = 4 -> "FT" [] code = 5 -> "plot/display"
              [] code = 6 -> "processing" [] code = 7 -> "GC"
              [] code = 8 -> "library search" [] code = 9 -> "communication"
              [] code = 10 -> "sample origin" [] OTHER -> "unknown")

\* prettyprint_blocktype: the non-empty names in key order, then 'parameters'
\* for a parameter block.  The label ' '.join(res) is kept as the sequence res.
NonEmpty(name) == IF name = "" THEN <<>> ELSE <<name>>
prettyprint_blocktype(bt) ==
    NonEmpty(BlockType_decoder("complex", bt.complex))
      \o NonEmpty(BlockType_decoder("type", bt.type))
      \o NonEmpty(BlockType_decoder("deriv", bt.deriv))
      \o NonEmpty(BlockType_decoder("extend", bt.extend))
      \o NonEmpty(BlockType_decoder("data", bt.data))
      \o NonEmpty(BlockType_decoder("param", bt.param))
      \o (IF bt.param # 0 THEN <<"parameters">> ELSE <<>>)

\* ------------------------------------------------------------ Parameter
TypeCodes == 0..4
TypeName(code) ==
    CASE code = 0 -> "INT32" [] code = 1 -> "REAL64" [] code = 2 -> "STRING"
      [] code = 3 -> "ENUM" [] OTHER -> "SENUM"
TypeCode(name) ==
    CASE name = "INT32" -> 0 [] name = "REAL64" -> 1 [] name = "STRING" -> 2
      [] name = "ENUM" -> 3 [] OTHER -> 4

\* The width in bytes of the Value the Switch reads for a type
ValueSize(type, reserved) ==
    CASE type = "INT32" -> 4 [] type = "REAL64" -> 8 [] OTHER -> reserved * 2

NoParameter == [Name |-> <<>>, Type |-> "INT32", ReservedSpace |-> 0,
                Value |-> <<>>, hasValue |-> FALSE]
ParameterError(kind, pos) == [err |-> kind, p |-> NoParameter, next |-> pos]

\* The Value as parsed: the bytes of a number, the string before its first
\* null for the string types
Value_parse(type, bytes) ==
    IF type \in {"INT32", "REAL64"} THEN bytes ELSE CString_parse(bytes)

\* Parameter.parse at offset pos, field by field: [err, p, next].
\* If(Name != 'END', Switch(Type)): the END pseudo-parameter has no Value.
Parameter_Value(f, pos, name, type, reserved) ==
    IF name = Str_END
    THEN [err |-> "none", next |-> pos + 8,
          p |-> [Name |-> name, Type |-> type, ReservedSpace |-> reserved,
                 Value |-> <<>>, hasValue |-> FALSE]]
    ELSE IF ~CanRead(f, pos + 8, ValueSize(type, reserved))
    THEN ParameterError("FieldError", pos)
    ELSE [err |-> "none", next |-> pos + 8 + ValueSize(type, reserved),
          p |-> [Name |-> name, Type |-> type, ReservedSpace |-> reserved,
                 Value |-> Value_parse(type, Read(f, pos + 8, ValueSize(type, reserved))),
                 hasValue |-> TRUE]]

\* Enum(ULInt16('Type'), ...) raises MappingError for a code it does not
\* list; ULInt16('ReservedSpace') follows.
Parameter_Type(f, pos, name, code) ==
    IF code \notin TypeCodes THEN ParameterError("MappingError", pos)
    ELSE IF ~CanRead(f, pos + 6, 2) THEN ParameterError("FieldError", pos)
    ELSE Parameter_Value(f, pos, name, TypeName(code),
                         ULInt16_parse(Read(f, pos + 6, 2)))

Parameter_parse(f, pos) ==
    IF ~CanRead(f, pos, 6) THEN ParameterError("FieldError", pos)
    ELSE Parameter_Type(f, pos, CString_parse(Read(f, pos, 4)),
                        ULInt16_parse(Read(f, pos + 4, 2)))

\* The predicate of RepeatUntil: the record that ends a list
IsTerminator(p) == p.Name = Str_END

\* ParameterList = RepeatUntil(Name == 'END', Parameter): records are parsed
\* in order up to and including the first terminator; an error in a record
\* is raised as ArrayError('missing terminator').  [err, cause, list, next]
ListCons(p, rest) ==
    [err |-> rest.err, cause |-> rest.cause, next |-> rest.next,
     list |-> IF rest.err = "none" THEN <<p>> \o rest.list ELSE <<>>]

RECURSIVE ParameterList_parse(_, _)
\* a repeat that leaves the terminator out of the list
RepeatUntil_exclusive(f, pos, r) ==
    IF r.err # "none"
    THEN [err |-> "ArrayError", cause |-> r.err, list |-> <<>>, next |-> pos]
    ELSE IF IsTerminator(r.p)
    THEN [err |-> "none", cause |-> "none", list |-> <<>>, next |-> r.next]
    ELSE ListCons(r.p, ParameterList_parse(f, r.next))
RepeatUntil(f, pos, r) ==
    IF r.err # "none"
    THEN [err |-> "ArrayError", cause |-> r.err, list |-> <<>>, next |-> pos]
    ELSE IF IsTerminator(r.p)
    THEN [err |-> "none", cause |-> "none", list |-> <<r.p>>, next |-> r.next]
    ELSE ListCons(r.p, ParameterList_parse(f, r.next))
ParameterList_parse(f, pos) == RepeatUntil(f, pos, Parameter_parse(f, pos))

\* ------------------------------------------------------- DirectoryEntry
\* is_ParameterList without the compound-info case
is_ParameterList_param_only(block) == block.BlockType.param # 0
is_ParameterList(block) == block.BlockType.param # 0 \/ block.BlockType.extend = 1

\* The (predicate, construct) cases of the 'Block' FunctionSwitch, in order,
\* each predicate applied to the entry's context.
Block_cases(ctx) ==
    << [match |-> is_ParameterList(ctx), con |-> "ParameterList"],
       [match |-> ctx.BlockType.data \notin {0, 13}, con |-> "FloatData"],
       [match |-> ctx.BlockType.extend # 0, con |-> "StringData"] >>

\* FunctionSwitch: the construct of the first case whose predicate holds, and
\* no construct (the value None) when none does.
RECURSIVE FunctionSwitch(_)
FunctionSwitch(cases) ==
    IF cases = <<>> THEN "None"
    ELSE IF Head(cases).match THEN Head(cases).con
    ELSE FunctionSwitch(Tail(cases))

\* The size in bytes of the lazily read constructs
\* FloatData = Array(BlockLength, LFloat32), StringData = String(BlockLength*4)
FloatData_size(ctx) == ctx.BlockLength * 4
StringData_size(ctx) == ctx.BlockLength * 4

NoBlock == [kind |-> "None", list |-> <<>>, offset |-> 0, size |-> 0]

ParameterList_Block(ctx, r) ==
    [err |-> r.err, cause |-> r.cause,
     Block |-> [kind |-> "ParameterList", list |-> r.list, offset |-> ctx.DataPtr,
                size |-> r.next - ctx.DataPtr]]

\* OnDemand(subcon): nothing is read; the value is a lazy handle on
\* (offset, size)
OnDemand(ctx, con, size) ==
    [err |-> "none", cause |-> "none",
     Block |-> [kind |-> con, list |-> <<>>, offset |-> ctx.DataPtr, size |-> size]]

\* Pointer(DataPtr, FunctionSwitch('Block', ...)): the stream is moved to
\* DataPtr and the construct con is parsed there.
Pointer_Block(f, ctx, con) ==
    CASE con = "ParameterList" ->
           ParameterList_Block(ctx, ParameterList_parse(f, ctx.DataPtr))
      [] con = "FloatData" -> OnDemand(ctx, con, FloatData_size(ctx))
      [] con = "StringData" -> OnDemand(ctx, con, StringData_size(ctx))
      [] OTHER -> [err |-> "none", cause |-> "none", Block |-> NoBlock]
Block_parse(f, ctx) == Pointer_Block(f, ctx, FunctionSwitch(Block_cases(ctx)))

\* DirectoryEntry.parse at offset pos: BlockType, BlockLength, DataPtr, then
\* the Block behind the pointer, whatever DataPtr is.  [err, cause, seek, d]:
\* seek is the payload bound behind the pointer, if any.
Entry(ctx, b) ==
    [err |-> b.err, cause |-> b.cause,
     seek |-> IF b.Block.kind = "None" THEN <<>>
              ELSE <<[DataPtr |-> ctx.DataPtr, kind |-> b.Block.kind]>>,
     d |-> <<[BlockType |-> ctx.BlockType, BlockLength |-> ctx.BlockLength,
              DataPtr |-> ctx.DataPtr, Block |-> b.Block]>>]
Entry_Block(f, ctx) == Entry(ctx, Block_parse(f, ctx))
DirectoryEntry_parse(f, pos) ==
    IF ~CanRead(f, pos, 12)
    THEN [err |-> "FieldError", cause |-> "none", seek |-> <<>>, d |-> <<>>]
    ELSE Entry_Block(f, [BlockType |-> BlockType_parse(Read(f, pos, 4)),
                         BlockLength |-> ULInt32_parse(Read(f, pos + 4, 4)),
                         DataPtr |-> ULInt32_parse(Read(f, pos + 8, 4))])

\* Array(MaxDirSize, DirectoryEntry) at offset pos: count entries of 12 bytes
\* one after the other; an error in an entry is raised as ArrayError.
\* resolved lists the payloads bound behind a pointer, in order.
DirCons(e, rest) ==
    [err |-> rest.err, cause |-> rest.cause,
     Directory |-> IF rest.err = "none" THEN e.d \o rest.Directory ELSE <<>>,
     resolved |-> e.seek \o rest.resolved]

RECURSIVE Directory_parse(_, _, _)
Array(f, pos, count, e) ==
    IF e.err # "none"
    THEN [err |-> "ArrayError", cause |-> IF e.cause = "none" THEN e.err ELSE e.cause,
          Directory |-> <<>>, resolved |-> e.seek]
    ELSE DirCons(e, Directory_parse(f, pos + 12, count - 1))
Directory_parse(f, pos, count) ==
    IF count = 0
    THEN [err |-> "none", cause |-> "none", Directory |-> <<>>, resolved |-> <<>>]
    ELSE Array(f, pos, count, DirectoryEntry_parse(f, pos))

\* -------------------------------------------------------------- OpusFile
Magic == <<10, 10, 254, 254>>

NoData == [Version |-> <<>>, FirstDirPtr |-> 0, MaxDirSize |-> 0,
           CurrDirSize |-> 0, Directory |-> <<>>]
ParseError(kind) == [err |-> kind, cause |-> "none", data |-> NoData, resolved |-> <<>>]

\* The Struct's value once the directory behind FirstDirPtr is parsed.  Any
\* error leaves no data: the exception propagates out of parse_stream.
OpusFile_Struct(f, dir) ==
    [err |-> dir.err, cause |-> dir.cause, resolved |-> dir.resolved,
     data |-> IF dir.err # "none" THEN NoData
              ELSE [Version |-> Read(f, 4, 8),
                    FirstDirPtr |-> ULInt32_parse(Read(f, 12, 4)),
                    MaxDirSize |-> ULInt32_parse(Read(f, 16, 4)),
                    CurrDirSize |-> ULInt32_parse(Read(f, 20, 4)),
                    Directory |-> dir.Directory]]

\* OpusFile.parse_stream: [err, cause, data, resolved]
OpusFile_parse(f) ==
    IF ~CanRead(f, 0, 4) THEN ParseError("FieldError")
    ELSE IF Read(f, 0, 4) # Magic THEN ParseError("ConstError")
    ELSE IF ~CanRead(f, 4, 20) THEN ParseError("FieldError")
    ELSE OpusFile_Struct(f, Directory_parse(f, ULInt32_parse(Read(f, 12, 4)),
                                            ULInt32_parse(Read(f, 16, 4))))

\* d.Block.value of a lazy handle: the read happens now, at the handle's
\* offset, and raises when the file has too few bytes there.
Lazy_ok(f, block) == block.size = 0 \/ CanRead(f, block.offset, block.size)
Floats_parse(b) ==
    [i \in 1..(Len(b) \div 4) |-> LFloat32_parse(SubSeq(b, 4 * i - 3, 4 * i))]
FloatData_value(f, block) == Floats_parse(Read(f, block.offset, block.size))
StringData_value(f, block) == Read(f, block.offset, block.size)

\* ------------------------------------------------------------ numpy
RECURSIVE Sum(_)
Sum(s) == IF s = <<>> THEN 0 ELSE Head(s) + Sum(Tail(s))
SeqMax(s) == CHOOSE x \in {s[i] : i \in DOMAIN s} : \A i \in DOMAIN s : s[i] <= x
SeqMin(s) == CHOOSE x \in {s[i] : i \in DOMAIN s} : \A i \in DOMAIN s : x <= s[i]

\* np.diff
Diff(s) == [i \in 1..(Len(s) - 1) |-> s[i + 1] - s[i]]

\* np.std(db) > 0.001 for db in halves: the variance (m*sum(d^2) - sum(d)^2) /
\* (4 m^2) exceeds 10^-6.  The std of an empty array is nan, and nan > 0.001
\* is False.
StdExceeds(db) ==
    LET m == Len(db)
    IN  m > 0 /\ 1000000 * (m * Sum([i \in DOMAIN db |-> db[i] * db[i]])
                              - Sum(db) * Sum(db)) > 4 * m * m

\* np.linspace(start, stop, num): num evenly spaced values, both ends kept;
\* a value between grid points is rounded down to the grid.
linspace(start, stop, num) ==
    [i \in 1..num |-> IF num = 1 THEN start
                      ELSE start + ((stop - start) * (i - 1)) \div (num - 1)]

\* np.interp(x, xp, fp) for an increasing xp: fp's end values outside xp,
\* the line through the two neighbours inside.
interp1(x, xp, fp) ==
    IF x <= xp[1] THEN fp[1]
    ELSE IF x >= xp[Len(xp)] THEN fp[Len(fp)]
    ELSE LET j == CHOOSE j \in 1..(Len(xp) - 1) : xp[j] <= x /\ x < xp[j + 1]
         IN  fp[j] + ((x - xp[j]) * (fp[j + 1] - fp[j])) \div (xp[j + 1] - xp[j])
interp(xs, xp, fp) == [i \in DOMAIN xs |-> interp1(xs[i], xp, fp)]

\* ------------------------------------------------------------ write_opus
Space == 32

\* comments.ljust(nc, ' ') with nc the next multiple of 4
PadLength(nc) == IF nc % 4 # 0 THEN ((nc \div 4) + 1) * 4 ELSE nc
Spaces(n) == [i \in 1..n |-> Space]
ljust(comments) == comments \o Spaces(PadLength(Len(comments)) - Len(comments))

Column(traj, c) == [i \in DOMAIN traj |-> traj[i][c]]

\* The band step check: the (bands, ampl) that are written
Resampled(traj) ==
    LET bands == Column(traj, 1)
        ampl == Column(traj, 2)
        new_bands == linspace(bands[1], bands[Len(bands)], Len(bands))
    IN  IF StdExceeds(Diff(bands))
        THEN [bands |-> new_bands, ampl |-> interp(new_bands, bands, ampl)]
        ELSE [bands |-> bands, ampl |-> ampl]

Container(name, type, value, text, reserved) ==
    [Name |-> name, Type |-> type, Value |-> value, Text |-> text,
     ReservedSpace |-> reserved]

meta_param(bands, ampl) ==
    << Container(Str_DPF, "INT32", Real(1), <<>>, 0),
       Container(Str_NPT, "INT32", Real(Len(bands)), <<>>, 0),
       Container(Str_FXV, "INT32", bands[1], <<>>, 0),
       Container(Str_LXV, "INT32", bands[Len(bands)], <<>>, 0),
       Container(Str_CSF, "REAL64", Real(1), <<>>, 0),
       Container(Str_MXY, "REAL64", SeqMax(ampl), <<>>, 0),
       Container(Str_MNY, "REAL64", SeqMin(ampl), <<>>, 0),
       Container(Str_DXU, "ENUM", 0, Str_WN, 2),
       Container(Str_END, "INT32", 0, <<>>, 0) >>

meta_param_size == 30

BT(complex, type, param, data, deriv, extend) ==
    [complex |-> complex, type |-> type, param |-> param, data |-> data,
     deriv |-> deriv, extend |-> extend]
dir_bt == BT(0, 0, 0, 13, 0, 0)
data_bt == BT(1, 3, 0, 1, 0, 0)
meta_bt == BT(1, 3, 1, 1, 0, 0)
comment_bt == BT(0, 0, 0, 0, 0, 5)

\* The four directory blocks before the pointers are filled in
directory0(ampl, padded) ==
    << [BlockType |-> dir_bt, DataPtr |-> 0, BlockLength |-> 0],
       [BlockType |-> data_bt, DataPtr |-> 0, BlockLength |-> Len(ampl)],
       [BlockType |-> meta_bt, DataPtr |-> 0, BlockLength |-> meta_param_size],
       [BlockType |-> comment_bt, DataPtr |-> 0, BlockLength |-> Len(padded) \div 4] >>

HeaderSize == 24

\* the fill loop advancing by the word count instead of the byte count
FillPointers_words(dir, ptr) ==
    [i \in DOMAIN dir |->
       [dir[i] EXCEPT !.DataPtr =
          ptr + Sum([j \in 1..(i - 1) |-> dir[j].BlockLength])]]

\* "Fill in directory block information": the directory block's length is 3
\* words per entry, and each DataPtr is the running offset from 24.
RECURSIVE FillPointers(_, _)
FillPointers(dir, ptr) ==
    IF dir = <<>> THEN <<>>
    ELSE <<[Head(dir) EXCEPT !.DataPtr = ptr]>>
           \o FillPointers(Tail(dir), ptr + Head(dir).BlockLength * 4)
\* a directory whose own block length is left unset
directory_unsized(ampl, padded) == FillPointers(directory0(ampl, padded), HeaderSize)
directory(ampl, padded) ==
    LET d0 == directory0(ampl, padded)
    IN  FillPointers([d0 EXCEPT ![1].BlockLength = Len(d0) * 3], HeaderSize)

\* Parameter.build: [err, bytes], head being the Name, Type and
\* ReservedSpace fields.  An INT32 Value is packed with struct.pack('<L'),
\* which converts a float with int() and raises struct.error for a negative
\* number; the bytes before it are written.
Parameter_Value_build(p, head) ==
    IF p.Name = Str_END THEN [err |-> "none", bytes |-> head]
    ELSE CASE p.Type = "INT32" ->
                IF ULInt32_ok(ToInt(p.Value))
                THEN [err |-> "none", bytes |-> head \o ULInt32_build(ToInt(p.Value))]
                ELSE [err |-> "struct.error", bytes |-> head]
           [] p.Type = "REAL64" ->
                [err |-> "none", bytes |-> head \o LFloat64_build(p.Value)]
           [] OTHER ->
                [err |-> "none",
                 bytes |-> head \o CString_build(p.Text, p.ReservedSpace * 2)]
Parameter_build(p) ==
    Parameter_Value_build(p, CString_build(p.Name, 4) \o ULInt16_build(TypeCode(p.Type))
                               \o ULInt16_build(p.ReservedSpace))

\* ParameterList.build (RepeatUntil): the records in order up to and
\* including the first terminator.
BytesCons(r, rest) == [err |-> rest.err, bytes |-> r.bytes \o rest.bytes]
RECURSIVE ParameterList_build(_)
RepeatUntil_build(list, r) ==
    IF r.err # "none" \/ IsTerminator(Head(list)) THEN r
    ELSE BytesCons(r, ParameterList_build(Tail(list)))
ParameterList_build(list) ==
    IF list = <<>> THEN [err |-> "ArrayError", bytes |-> <<>>]
    ELSE RepeatUntil_build(list, Parameter_build(Head(list)))

RECURSIVE Floats_build(_)
Floats_build(xs) ==
    IF xs = <<>> THEN <<>> ELSE LFloat32_build(Head(xs)) \o Floats_build(Tail(xs))

\* The build side of the 'Block' FunctionSwitch: [err, bytes]
Pointer_Block_build(block, con) ==
    CASE con = "ParameterList" -> ParameterList_build(block.list)
      [] con = "FloatData" -> [err |-> "none", bytes |-> Floats_build(block.floats)]
      [] con = "StringData" -> [err |-> "none", bytes |-> block.text]
      [] OTHER -> [err |-> "none", bytes |-> <<>>]
Block_build(ctx, block) == Pointer_Block_build(block, FunctionSwitch(Block_cases(ctx)))

DirectoryEntry_build(d) ==
    BlockType_build(d.BlockType) \o ULInt32_build(d.BlockLength)
      \o ULInt32_build(d.DataPtr)

\* Array(MaxDirSize, DirectoryEntry).build from entry i on: each entry's 12
\* bytes at FirstDirPtr + 12 (i - 1), then its Block at its DataPtr.  The
\* result lists the stream writes in order, [pos, bytes, block], block being
\* the directory block (1) for the entries and the entry's own index for its
\* payload; an error ends the list after the bytes written before it.
WriteOf(pos, bytes, block) ==
    IF bytes = <<>> THEN <<>> ELSE <<[pos |-> pos, bytes |-> bytes, block |-> block]>>
WritesCons(ws, rest) == [err |-> rest.err, writes |-> ws \o rest.writes]

RECURSIVE Directory_build(_, _, _, _)
Array_build(first, dir, blocks, i, entry, b) ==
    IF b.err # "none"
    THEN [err |-> b.err, writes |-> entry \o WriteOf(dir[i].DataPtr, b.bytes, i)]
    ELSE WritesCons(entry \o WriteOf(dir[i].DataPtr, b.bytes, i),
                    Directory_build(first, dir, blocks, i + 1))
Directory_build(first, dir, blocks, i) ==
    IF i > Len(dir) THEN [err |-> "none", writes |-> <<>>]
    ELSE Array_build(first, dir, blocks, i,
                     WriteOf(first + 12 * (i - 1), DirectoryEntry_build(dir[i]), 1),
                     Block_build(dir[i], blocks[i]))

\* OpusFile.build_stream(opus_obj, fh)
OpusFile_build(obj, blocks) ==
    WritesCons(WriteOf(0, Magic \o LFloat64_build(obj.Version)
                            \o ULInt32_build(obj.FirstDirPtr)
                            \o ULInt32_build(obj.MaxDirSize)
                            \o ULInt32_build(obj.CurrDirSize), 0),
               Directory_build(obj.FirstDirPtr, obj.Directory, blocks, 1))

RECURSIVE Written(_, _)
Written(f, ws) ==
    IF ws = <<>> THEN f
    ELSE Written(WriteAt(f, Head(ws).pos, Head(ws).bytes), Tail(ws))

PayloadOf(list, floats, text) == [list |-> list, floats |-> floats, text |-> text]

\* The Block of each directory entry: None, ampl, meta_param, comments
Blocks(r, padded) ==
    << PayloadOf(<<>>, <<>>, <<>>), PayloadOf(<<>>, r.ampl, <<>>),
       PayloadOf(meta_param(r.bands, r.ampl), <<>>, <<>>),
       PayloadOf(<<>>, <<>>, padded) >>

opus_obj(dir) ==
    [Version |-> Real(920622), FirstDirPtr |-> 24, MaxDirSize |-> Len(dir),
     CurrDirSize |-> Len(dir), Directory |-> dir]

\* with open(fname, 'wb') as fh: OpusFile.build_stream(opus_obj, fh).  An
\* error of build_stream is raised with the file open, and what was written
\* stays.
Opened(b) ==
    [err |-> b.err, status |-> IF b.err = "none" THEN "complete" ELSE "partial",
     file |-> Written(<<>>, b.writes), writes |-> b.writes]

Assemble(r, padded) ==
    Opened(OpusFile_build(opus_obj(directory(r.ampl, padded)), Blocks(r, padded)))

\* write_opus(fname, traj, comments): [err, status, file, writes].  An empty
\* traj raises IndexError at bands[0], before the file is opened.
write_opus(traj, comments) ==
    IF Len(traj) = 0
    THEN [err |-> "IndexError", status |-> "absent", file |-> <<>>, writes |-> <<>>]
    ELSE Assemble(Resampled(traj), ljust(comments))

\* ---------------------------------------------------------------- inputs
\* Band values and amplitudes in halves: -2.0, 5.0, 5.5, 6.0, 7.0, 8.0 and
\* 0.0, 2.0, 16777217.0 (an integer that float32 cannot hold).
BandVals == {-4, 10, 11, 12, 14, 16}
AmplVals == {0, 4, 33554434}

\* Band axes are monotonic, and a descending axis is evenly spaced: np.interp
\* is defined for an increasing xp only.
BandSeqs(n) ==
    { b \in [1..n -> BandVals] :
        \/ \A i \in 1..(n - 1) : b[i] < b[i + 1]
        \/ (\A i \in 1..(n - 1) : b[i] > b[i + 1]) /\ ~StdExceeds(Diff(b)) }
Trajs(n) ==
    { [i \in 1..n |-> <<b[i], a[i]>>] : b \in BandSeqs(n), a \in [1..n -> AmplVals] }

\* "testing!": comments are its prefixes
CommentText == <<116, 101, 115, 116, 105, 110, 103, 33>>
Comments == { SubSeq(CommentText, 1, k) : k \in 0..MaxComment }

\* Files that did not come from write_opus: a 24-byte header, a directory of
\* k entries at offset 24 and the entries' payloads after it.
Rec(name, code, reserved, value) ==
    CString_build(name, 4) \o ULInt16_build(code) \o ULInt16_build(reserved) \o value
Rec_END == Rec(Str_END, 0, 0, <<>>)
List_NPT == Rec(Str_NPT, 0, 0, ULInt32_build(42)) \o Rec_END
List_status ==
    Rec(Str_CSF, 1, 0, LFloat64_build(Real(1))) \o Rec(Str_FXV, 0, 0, ULInt32_build(5))
      \o Rec(Str_LXV, 0, 0, ULInt32_build(7)) \o Rec_END
List_badType == Rec(Str_NPT, 99, 0, ULInt32_build(42)) \o Rec_END
List_noEND == Rec(Str_NPT, 0, 0, ULInt32_build(42))
Floats_3 == Floats_build(<<Real(2), Real(3), Real(4)>>)

Slot(bt, len, ptr, bytes) == [bt |-> bt, len |-> len, ptr |-> ptr, bytes |-> bytes]
Slots ==
    { Slot(BT(0, 0, 0, 0, 0, 0), 0, "zero", <<>>),
      Slot(BT(1, 3, 0, 1, 0, 0), 3, "valid", Floats_3),
      Slot(BT(1, 3, 1, 1, 0, 0), 12, "valid", List_status),
      Slot(BT(0, 0, 10, 0, 0, 0), 5, "valid", List_NPT),
      Slot(BT(0, 0, 0, 0, 0, 5), 1, "valid", SubSeq(CommentText, 1, 4)),
      Slot(BT(0, 0, 0, 1, 0, 5), 3, "valid", Floats_3),
      Slot(BT(0, 0, 2, 0, 0, 0), 5, "valid", List_badType),
      Slot(BT(0, 0, 3, 0, 0, 0), 3, "valid", List_noEND),
      Slot(BT(1, 3, 0, 1, 0, 0), 3, "oob", <<>>),
      Slot(BT(0, 0, 1, 0, 0, 0), 0, "zero", <<>>),
      Slot(BT(0, 0, 0, 1, 0, 0), 1, "zero", <<>>),
      Slot(BT(0, 0, 0, 0, 0, 1), 5, "valid", List_NPT),
      Slot(BT(0, 0, 0, 13, 0, 0), 3, "valid", <<>>) }

HeaderKinds == {"ok", "bad magic", "directory out of bounds", "short header"}

RECURSIVE PayloadBytes(_)
PayloadBytes(slots) ==
    IF slots = <<>> THEN <<>>
    ELSE (IF Head(slots).ptr = "valid" THEN Head(slots).bytes ELSE <<>>)
           \o PayloadBytes(Tail(slots))

SlotPtr(slots, i, total) ==
    CASE slots[i].ptr = "zero" -> 0
      [] slots[i].ptr = "oob" -> total + 8
      [] OTHER -> 24 + 12 * Len(slots) + Len(PayloadBytes(SubSeq(slots, 1, i - 1)))

RECURSIVE EntryBytes(_, _, _)
EntryBytes(slots, i, total) ==
    IF i > Len(slots) THEN <<>>
    ELSE BlockType_build(slots[i].bt) \o ULInt32_build(slots[i].len)
           \o ULInt32_build(SlotPtr(slots, i, total)) \o EntryBytes(slots, i + 1, total)

Cut(kind, whole) == IF kind = "short header" THEN SubSeq(whole, 1, 20) ELSE whole
ExternalBytes(kind, slots) ==
    LET k == Len(slots)
        total == 24 + 12 * k + Len(PayloadBytes(slots))
        magic == IF kind = "bad magic" THEN <<10, 10, 254, 255>> ELSE Magic
        first == IF kind = "directory out of bounds" THEN total + 4 ELSE 24
    IN  Cut(kind, magic \o Zeros(8) \o ULInt32_build(first) \o ULInt32_build(k)
                    \o ULInt32_build(k) \o EntryBytes(slots, 1, total)
                    \o PayloadBytes(slots))

\* ------------------------------------------------------------ parse_traj
\* dict((p.Name, p.Value) for p in d.Block): the last record of a name wins
HasKey(dict, key) == \E i \in DOMAIN dict : dict[i].Name = key
Lookup(dict, key) ==
    dict[CHOOSE i \in DOMAIN dict :
           dict[i].Name = key /\ \A j \in DOMAIN dict : dict[j].Name = key => j <= i]
IsNumber(p) == p.hasValue /\ p.Type \in {"INT32", "REAL64"}
Number(p) ==
    IF p.Type = "INT32" THEN Real(ULInt32_parse(p.Value)) ELSE LFloat64_parse(p.Value)

\* Lines 178-181: a first value that is exactly zero before a value above 1.0
\* is dropped, and so is such a last value.  An index past the end raises.
ZeroFix(y) ==
    IF Len(y) = 0 \/ (y[1] = 0 /\ Len(y) < 2) THEN [err |-> "IndexError", y |-> <<>>]
    ELSE
    LET y1 == IF y[1] = 0 /\ y[2] > Real(1) THEN Tail(y) ELSE y
    IN  IF y1[Len(y1)] = 0 /\ Len(y1) < 2 THEN [err |-> "IndexError", y |-> <<>>]
        ELSE IF y1[Len(y1)] = 0 /\ y1[Len(y1) - 1] > Real(1)
        THEN [err |-> "none", y |-> SubSeq(y1, 1, Len(y1) - 1)]
        ELSE [err |-> "none", y |-> y1]

\* Lines 176-181: y_vals = np.array(d.Block.value) and the zero fix.  A
\* parameter list and None have no .value; a lazy handle is read now; a
\* string gives a 0-d array, which y_vals[0] cannot index.
ReadY(f, block) ==
    CASE block.kind = "FloatData" ->
           IF Lazy_ok(f, block) THEN ZeroFix(FloatData_value(f, block))
           ELSE [err |-> "ArrayError", y |-> <<>>]
      [] block.kind = "StringData" ->
           IF Lazy_ok(f, block) THEN [err |-> "IndexError", y |-> <<>>]
           ELSE [err |-> "FieldError", y |-> <<>>]
      [] OTHER -> [err |-> "AttributeError", y |-> <<>>]

Label_sample_origin == <<"sample origin", "parameters">>
HasRatio(label) == \E i \in DOMAIN label : label[i] = "ratio"
EndsWithDataStatus(label) ==
    Len(label) >= 2 /\ label[Len(label) - 1] = "data status"
      /\ label[Len(label)] = "parameters"

Reverse(s) == [i \in DOMAIN s |-> s[Len(s) + 1 - i]]

\* Lines 183-188: y_vals *= CSF, x_vals = linspace(FXV, LXV, len(y_vals)),
\* traj = transpose((x_vals, y_vals)), reversed when its bands descend
Scaled(y_vals, csf) == [i \in DOMAIN y_vals |-> (y_vals[i] * csf) \div 2]
Transpose(x, y) == [i \in DOMAIN y |-> <<x[i], y[i]>>]
Flipped(traj) == IF traj[1][1] > traj[Len(traj)][1] THEN Reverse(traj) ELSE traj
Trajectory(y, fxv, lxv) == Flipped(Transpose(linspace(fxv, lxv, Len(y)), y))

\* Lines 183-191, with the locals bound so far: [err, traj]
Finish(bound, params, y_vals, return_params) ==
    IF "y_vals" \notin bound \/ "params" \notin bound
    THEN [err |-> "UnboundLocalError", traj |-> <<>>]
    ELSE IF ~HasKey(params, Str_CSF) THEN [err |-> "KeyError", traj |-> <<>>]
    ELSE IF ~IsNumber(Lookup(params, Str_CSF)) THEN [err |-> "TypeError", traj |-> <<>>]
    ELSE IF ~HasKey(params, Str_FXV) \/ ~HasKey(params, Str_LXV)
    THEN [err |-> "KeyError", traj |-> <<>>]
    ELSE IF ~IsNumber(Lookup(params, Str_FXV)) \/ ~IsNumber(Lookup(params, Str_LXV))
    THEN [err |-> "TypeError", traj |-> <<>>]
    ELSE IF return_params /\ "sample_params" \notin bound
    THEN [err |-> "UnboundLocalError", traj |-> <<>>]
    ELSE [err |-> "none",
          traj |-> Trajectory(Scaled(y_vals, Number(Lookup(params, Str_CSF))),
                              Number(Lookup(params, Str_FXV)),
                              Number(Lookup(params, Str_LXV)))]

\* ----------------------------------------------------------------- state
VARIABLES
    pc,          \* "start", "file", "loop", "after", "done"
    origin,      \* "none", "write_opus", "external"
    in_traj,     \* write_opus's traj: pairs <<band, amplitude>>
    in_comments, \* write_opus's comments
    buildErr,    \* the exception write_opus raised, or "none"
    status,      \* of the file on disk: "absent", "partial", "complete"
    file,        \* the bytes of the file on disk
    writes,      \* the stream writes of build_stream, in order
    parseErr,    \* the exception OpusFile.parse_stream raised, or "none"
    cause,       \* the exception an ArrayError wraps
    data,        \* the parsed OpusFile
    resolved,    \* the payloads parse bound behind a DataPtr
    idx,         \* iter_blocks: the directory entry looked at next
    yielded,     \* iter_blocks: the indices of the entries yielded
    bound,       \* parse_traj: the locals assigned so far
    params,      \* parse_traj: params
    y_vals,      \* parse_traj: y_vals
    err,         \* the exception parse_traj raised after parsing, or "none"
    result       \* the traj parse_traj returned

vars == <<pc, origin, in_traj, in_comments, buildErr, status, file, writes,
          parseErr, cause, data, resolved, idx, yielded, bound, params, y_vals,
          err, result>>

buildVars == <<origin, in_traj, in_comments, buildErr, status, file, writes>>
parseVars == <<parseErr, cause, data, resolved>>
loopVars == <<idx, yielded, bound, params, y_vals>>

Init ==
    /\ pc = "start" /\ origin = "none"
    /\ in_traj = <<>> /\ in_comments = <<>> /\ buildErr = "none"
    /\ status = "absent" /\ file = <<>> /\ writes = <<>>
    /\ parseErr = "none" /\ cause = "none" /\ data = NoData /\ resolved = <<>>
    /\ idx = 1 /\ yielded = <<>> /\ bound = {} /\ params = <<>> /\ y_vals = <<>>
    /\ err = "none" /\ result = <<>>

\* write_opus(fname, traj, comments), r being what it does
WriteOpusDone(traj, comments, r) ==
    /\ in_traj' = traj /\ in_comments' = comments
    /\ buildErr' = r.err /\ status' = r.status
    /\ file' = r.file /\ writes' = r.writes
    /\ pc' = IF r.status = "absent" THEN "done" ELSE "file"
WriteOpus ==
    /\ pc = "start"
    /\ \E n \in 0..MaxPts : \E traj \in Trajs(n) : \E comments \in Comments :
         WriteOpusDone(traj, comments, write_opus(traj, comments))
    /\ origin' = "write_opus"
    /\ UNCHANGED <<parseVars, loopVars, err, result>>

\* A file from elsewhere is on disk
ExternalFile ==
    /\ pc = "start"
    /\ \E kind \in HeaderKinds : \E k \in 1..MaxDir : \E slots \in [1..k -> Slots] :
         file' = ExternalBytes(kind, slots)
    /\ origin' = "external" /\ status' = "complete" /\ pc' = "file"
    /\ UNCHANGED <<in_traj, in_comments, buildErr, writes, parseVars, loopVars,
                   err, result>>

\* parse_traj, line 166: data = OpusFile.parse_stream(fh); an exception of
\* the parser ends parse_traj
Parsed(r) ==
    /\ parseErr' = r.err /\ cause' = r.cause
    /\ data' = r.data /\ resolved' = r.resolved
    /\ pc' = IF r.err = "none" THEN "loop" ELSE "done"
ParseStream ==
    /\ pc = "file"
    /\ Parsed(OpusFile_parse(file))
    /\ UNCHANGED <<buildVars, loopVars, err, result>>

\* a loop that stops at an empty block instead of a zero pointer
AtBreak_length(d) == d.BlockLength = 0

\* iter_blocks, lines 104-105: if d.DataPtr == 0: break
AtBreak(d) == d.DataPtr = 0

\* iter_blocks, lines 103-105: the directory is exhausted, or the loop breaks
IterStop ==
    /\ pc = "loop"
    /\ IF idx > Len(data.Directory) THEN TRUE ELSE AtBreak(data.Directory[idx])
    /\ pc' = "after"
    /\ UNCHANGED <<buildVars, parseVars, loopVars, err, result>>

\* parse_traj's loop body, lines 168-181, on the yielded (label, d)
AssignY(r) ==
    IF r.err # "none"
    THEN /\ err' = r.err /\ pc' = "done"
         /\ UNCHANGED <<bound, params, y_vals>>
    ELSE /\ y_vals' = r.y /\ bound' = bound \cup {"y_vals"}
         /\ UNCHANGED <<params, err, pc>>
LoopBody(label, d) ==
    IF label = Label_sample_origin
    THEN /\ bound' = bound \cup {"sample_params"}
         /\ UNCHANGED <<params, y_vals, err, pc>>
    ELSE IF ~HasRatio(label)
    THEN UNCHANGED <<bound, params, y_vals, err, pc>>
    ELSE IF EndsWithDataStatus(label)
    THEN /\ params' = d.Block.list /\ bound' = bound \cup {"params"}
         /\ UNCHANGED <<y_vals, err, pc>>
    ELSE AssignY(ReadY(file, d.Block))

\* iter_blocks, lines 106-107, yields (label, d), and the loop body runs
IterYield ==
    /\ pc = "loop"
    /\ IF idx > Len(data.Directory) THEN FALSE ELSE ~AtBreak(data.Directory[idx])
    /\ yielded' = Append(yielded, idx)
    /\ idx' = idx + 1
    /\ LoopBody(prettyprint_blocktype(data.Directory[idx].BlockType),
                data.Directory[idx])
    /\ UNCHANGED <<buildVars, parseVars, result>>

\* parse_traj, lines 183-191.  return_params is read at line 189 only.
Returned(r) == err' = r.err /\ result' = r.traj
ParseTrajReturn ==
    /\ pc = "after"
    /\ \E return_params \in BOOLEAN :
         Returned(Finish(bound, params, y_vals, return_params))
    /\ pc' = "done"
    /\ UNCHANGED <<buildVars, parseVars, loopVars>>

Next ==
    \/ WriteOpus
    \/ ExternalFile
    \/ ParseStream
    \/ IterStop
    \/ IterYield
    \/ ParseTrajReturn

Spec == Init /\ [][Next]_vars

\* ---------------------------------------------------------------- claims
ParsedOK == pc \in {"loop", "after", "done"} /\ parseErr = "none"
Built == origin = "write_opus" /\ status = "complete"

\* The precedence the payload kinds are claimed to follow
ClaimedKind(bt) ==
    IF bt.param # 0 \/ bt.extend = 1 THEN "ParameterList"
    ELSE IF bt.data \notin {0, 13} THEN "FloatData"
    ELSE IF bt.extend # 0 THEN "StringData"
    ELSE "None"

\* C1: every parsed directory entry has the one payload kind the first-match
\* precedence gives it (ParameterList, else FloatData of BlockLength float32,
\* else StringData of BlockLength*4 bytes, else None); in particular param # 0
\* wins over data, and data wins over extend in 2..7.
C1_PayloadPrecedence ==
    \A i \in DOMAIN data.Directory :
      LET d == data.Directory[i]
      IN  /\ d.Block.kind = ClaimedKind(d.BlockType)
          /\ d.Block.kind \in {"FloatData", "StringData"}
               => d.Block.size = 4 * d.BlockLength /\ d.Block.offset = d.DataPtr
          /\ d.BlockType.param # 0 => d.Block.kind = "ParameterList"
          /\ (d.BlockType.param = 0 /\ d.BlockType.data \notin {0, 13}
                /\ d.BlockType.extend \in 2..7) => d.Block.kind = "FloatData"

\* C1 witness: a parsed file with a parameter block whose data field is set
\* and a float block whose extend field is 5
C1_Witness ==
    /\ ParsedOK
    /\ \E i \in DOMAIN data.Directory :
         /\ data.Directory[i].BlockType.param # 0
         /\ data.Directory[i].BlockType.data \notin {0, 13}
         /\ data.Directory[i].Block.kind = "ParameterList"
    /\ \E i \in DOMAIN data.Directory :
         /\ data.Directory[i].BlockType.data \notin {0, 13}
         /\ data.Directory[i].BlockType.extend = 5
         /\ data.Directory[i].Block.kind = "FloatData"

\* The directory-entry fields as they stand in the bytes of a file
RawLength(f, i) == ULInt32_parse(Read(f, HeaderSize + 12 * (i - 1) + 4, 4))
RawPtr(f, i) == ULInt32_parse(Read(f, HeaderSize + 12 * (i - 1) + 8, 4))
RawHeader(f, pos) == ULInt32_parse(Read(f, pos, 4))
ClaimedLengths == <<12, Len(in_traj), 30, PadLength(Len(in_comments)) \div 4>>
ClaimedPtr(i) == 24 + 4 * Sum(SubSeq(ClaimedLengths, 1, i - 1))

\* C3: a file written by write_opus has a four-entry directory (directory,
\* float data, metadata list, comment) with word lengths 12, n, 30, nc/4, each
\* pointer 24 plus four times the lengths before it, the directory at 24, and
\* both directory-size header fields equal to 4.
C3_DirectoryLayout ==
    Built =>
      /\ Len(file) >= HeaderSize + 48
      /\ Read(file, 0, 4) = Magic
      /\ RawHeader(file, 12) = 24
      /\ RawHeader(file, 16) = 4
      /\ RawHeader(file, 20) = 4
      /\ \A i \in 1..4 : /\ RawLength(file, i) = ClaimedLengths[i]
                         /\ RawPtr(file, i) = ClaimedPtr(i)
      /\ BlockType_parse(Read(file, HeaderSize, 4)) = dir_bt
      /\ BlockType_parse(Read(file, HeaderSize + 12, 4)) = data_bt
      /\ BlockType_parse(Read(file, HeaderSize + 24, 4)) = meta_bt
      /\ BlockType_parse(Read(file, HeaderSize + 36, 4)) = comment_bt
      /\ PadLength(Len(in_comments)) % 4 = 0
      /\ PadLength(Len(in_comments)) >= Len(in_comments)
      /\ PadLength(Len(in_comments)) < Len(in_comments) + 4

\* C3 witness: a written file of at least two points whose comment needed
\* padding
C3_Witness ==
    /\ Built
    /\ Len(in_traj) >= 2
    /\ Len(in_comments) % 4 # 0
    /\ RawPtr(file, 4) = 24 + 4 * (12 + Len(in_traj) + 30)

\* The length of the longest prefix of a directory whose pointers are nonzero
RECURSIVE NonzeroPrefix(_)
NonzeroPrefix(dir) ==
    IF dir = <<>> THEN 0
    ELSE IF Head(dir).DataPtr = 0 THEN 0
    ELSE 1 + NonzeroPrefix(Tail(dir))

\* The smallest valid file: the header and one all-zero directory entry
MinimalFile == ExternalBytes("ok", <<Slot(BT(0, 0, 0, 0, 0, 0), 0, "zero", <<>>)>>)

\* C5: iter_blocks yields entries in directory order, only from the prefix of
\* nonzero pointers, and when it stops it has yielded exactly that prefix;
\* the minimal file parses to one entry and yields nothing.
C5_IterBlocksPrefix ==
    /\ yielded = [i \in 1..Len(yielded) |-> i]
    /\ Len(yielded) <= NonzeroPrefix(data.Directory)
    /\ pc = "after" => Len(yielded) = NonzeroPrefix(data.Directory)
    /\ (file = MinimalFile /\ pc \in {"loop", "after", "done"})
         => /\ parseErr = "none"
            /\ Len(data.Directory) = 1
            /\ yielded = <<>>

\* C5 witness: iteration stopped at a zero pointer that a nonzero one follows
C5_Witness ==
    /\ pc = "after"
    /\ Len(data.Directory) >= 2
    /\ data.Directory[1].DataPtr = 0
    /\ data.Directory[2].DataPtr # 0
    /\ yielded = <<>>

\* The bytes a list of decoded records took in the file
RECURSIVE RecordBytes(_)
RecordBytes(list) ==
    IF list = <<>> THEN 0
    ELSE 8 + (IF Head(list).hasValue
              THEN ValueSize(Head(list).Type, Head(list).ReservedSpace) ELSE 0)
           + RecordBytes(Tail(list))
Names(list) == [i \in DOMAIN list |-> list[i].Name]
MetaNames ==
    <<Str_DPF, Str_NPT, Str_FXV, Str_LXV, Str_CSF, Str_MXY, Str_MNY, Str_DXU, Str_END>>

\* C9: every decoded parameter list ends with its only END record, which has
\* no value and after which nothing is decoded; the bytes of NPT=42,END
\* decode to [NPT=42, END]; the metadata list of a written file is DPF, NPT,
\* FXV, LXV, CSF, MXY, MNY, DXU, END.
C9_SingleTerminator ==
    /\ \A i \in DOMAIN data.Directory :
         LET b == data.Directory[i].Block
         IN  b.kind = "ParameterList" =>
               /\ b.list # <<>>
               /\ b.list[Len(b.list)].Name = Str_END
               /\ ~b.list[Len(b.list)].hasValue
               /\ b.list[Len(b.list)].Value = <<>>
               /\ \A j \in 1..(Len(b.list) - 1) :
                    b.list[j].Name # Str_END /\ b.list[j].hasValue
               /\ b.size = RecordBytes(b.list)
               /\ CString_parse(Read(file, b.offset + b.size - 8, 4)) = Str_END
               /\ (CanRead(file, b.offset, Len(List_NPT))
                     /\ Read(file, b.offset, Len(List_NPT)) = List_NPT)
                    => /\ Names(b.list) = <<Str_NPT, Str_END>>
                       /\ b.list[1].Type = "INT32"
                       /\ SignedInt4(b.list[1].Value) = 42
    /\ (Built /\ ParsedOK) =>
         /\ data.Directory[3].Block.kind = "ParameterList"
         /\ Names(data.Directory[3].Block.list) = MetaNames

\* C9 witness: a parsed file holding the list NPT=42, END
C9_Witness ==
    /\ ParsedOK
    /\ \E i \in DOMAIN data.Directory :
         /\ data.Directory[i].Block.kind = "ParameterList"
         /\ data.Directory[i].DataPtr # 0
         /\ CanRead(file, data.Directory[i].DataPtr, Len(List_NPT))
         /\ Read(file, data.Directory[i].DataPtr, Len(List_NPT)) = List_NPT
         /\ Len(data.Directory[i].Block.list) = 2

\* The byte region a directory entry of a file claims: [lo, hi)
Region(f, i) == [lo |-> RawPtr(f, i), hi |-> RawPtr(f, i) + 4 * RawLength(f, i)]
Disjoint(r, q) == r.hi <= q.lo \/ q.hi <= r.lo
Inside(w, r) == r.lo <= w.pos /\ w.pos + Len(w.bytes) <= r.hi
BlockBytes(ws, i) == Sum([k \in DOMAIN ws |-> IF ws[k].block = i THEN Len(ws[k].bytes) ELSE 0])

\* C10: in a file written by write_opus the four block regions are pairwise
\* disjoint and start at or after the 24-byte header, every payload write
\* lies inside the region of its entry, and the metadata list (116 bytes)
\* fits its 30-word region.
C10_RegionsDisjoint ==
    Built =>
      /\ \A i \in 1..4 : Region(file, i).lo >= HeaderSize
      /\ \A i, j \in 1..4 : i # j => Disjoint(Region(file, i), Region(file, j))
      /\ \A k \in DOMAIN writes :
           IF writes[k].block = 0
           THEN writes[k].pos = 0 /\ Len(writes[k].bytes) = HeaderSize
           ELSE Inside(writes[k], Region(file, writes[k].block))
      /\ BlockBytes(writes, 1) = 48
      /\ BlockBytes(writes, 2) = 4 * Len(in_traj)
      /\ BlockBytes(writes, 3) = 116
      /\ BlockBytes(writes, 4) = PadLength(Len(in_comments))

\* C10 witness: a written file with a float block, a metadata list and a
\* nonempty comment
C10_Witness ==
    /\ Built
    /\ Len(in_traj) >= 2
    /\ Len(in_comments) > 0
    /\ \E k \in DOMAIN writes : writes[k].block = 3 /\ Len(writes[k].bytes) = 116
    /\ \E k \in DOMAIN writes : writes[k].block = 4 /\ Len(writes[k].bytes) > 0

\* What a round trip is claimed to return for the trajectory written
ClaimedTraj ==
    Transpose(linspace(in_traj[1][1], in_traj[Len(in_traj)][1], Len(in_traj)),
              Resampled(in_traj).ampl)

\* C2: parse_traj of a file written from at least two points returns the
\* written amplitudes, in order, on the evenly spaced grid from the first to
\* the last band, and the comment block holds the comment and its pad spaces.
C2_RoundTrip ==
    (Built /\ Len(in_traj) >= 2 /\ pc = "done" /\ parseErr = "none" /\ err = "none")
      => /\ result = ClaimedTraj
         /\ StringData_value(file, data.Directory[4].Block) = ljust(in_comments)

\* C4: write_opus of fewer than two points raises and leaves no file.
C4_RejectsShortInput ==
    (origin = "write_opus" /\ Len(in_traj) < 2)
      => buildErr # "none" /\ status = "absent"

\* C6: parsing binds no payload behind a DataPtr of zero.
C6_ZeroPointerUnresolved ==
    \A k \in DOMAIN resolved : resolved[k].DataPtr # 0

\* C7: a parse that returns an OpusFile has no payload whose later access
\* fails, and a parse that fails returns nothing.
C7_AllOrNothing ==
    /\ parseErr # "none" => data = NoData
    /\ ParsedOK =>
         \A i \in DOMAIN data.Directory :
           data.Directory[i].Block.kind \in {"FloatData", "StringData"}
             => Lazy_ok(file, data.Directory[i].Block)

\* C8: parse_traj of a well-formed file with no ratio block returns without
\* raising.
C8_NoRatioNoError ==
    (ParsedOK /\ pc = "done"
       /\ \A i \in DOMAIN data.Directory :
            /\ ~HasRatio(prettyprint_blocktype(data.Directory[i].BlockType))
            /\ data.Directory[i].Block.kind \in {"FloatData", "StringData"}
                 => Lazy_ok(file, data.Directory[i].Block))
      => err = "none"

====
